---- MODULE Spec2Model ----
(***************************************************************************)
(* Model of django_utils: the hashtag usage counter driven by the          *)
(* post_save / post_delete signal handlers of dju_taggit_core, and the     *)
(* generic index-name generator of django.db.models.helpers.               *)
(***************************************************************************)
EXTENDS Integers, Sequences, FiniteSets, Bags, TLC

(***************************************************************************)
(* Bounds of the model.                                                    *)
(***************************************************************************)
\* largest number of association rows alive at once, all relations together
MaxRows == 3
\* created_at values are 1..MaxTime
MaxTime == 3
\* creations stop once a hashtag's stored count has reached MaxCount
MaxCount == 4
\* number of creation handlers that run concurrently in SpecConc
NumProcs == 3

(***************************************************************************)
(* The tagging schema.                                                     *)
(***************************************************************************)
\* rows of the Hashtag table that may exist (dju_taggit.models.Hashtag)
Tags == {"h1", "h2"}

\* the relations whose foreign key `tag` points at Hashtag, the
\* ManyToOneRel fields of Hashtag: the plain TaggedItem and the
\* usage-counted HashtaggedItem
Relations == {"TaggedItem", "HashtaggedItem"}

\* isinstance(instance, HashtaggedItemBase) / issubclass(related_model, ...)
IsHashtaggedItemBase(rel) == rel \in {"HashtaggedItem"}

\* isinstance(instance, TaggedItemBase): every relation derives from it
IsTaggedItemBase(rel) == rel \in Relations

\* isinstance(tag, HashtagBase): the foreign key of every relation of
\* dju_taggit.models points at Hashtag
IsHashtagBase(t) == t \in Tags

Times == 1..MaxTime

\* a nullable DateTimeField is the empty set (None) or a singleton
None == {}
NullableTimes == {None} \cup {{ts} : ts \in Times}

\* an association row without its primary key: (relation, tag, created_at);
\* created_at is only meaningful on the usage-counted relations, a plain
\* TaggedItem has no such column and carries 1
ItemKeys ==
    [rel : {r \in Relations : IsHashtaggedItemBase(r)}, tag : Tags, created_at : Times]
    \cup [rel : {r \in Relations : ~IsHashtaggedItemBase(r)}, tag : Tags, created_at : {1}]

VARIABLES
    tags,         \* the Hashtag table: tag -> [exists, count, last_used]
    rows,         \* the association tables: a bag of ItemKeys
    auto_remove,  \* settings.DJANGO_UTILS_TAGGIT_AUTO_REMOVE_UNUSED_TAGS
    last_op,      \* the signal sent last and the row it was sent for
    pc,           \* SpecConc: position of each creation handler
    loaded,       \* SpecConc: the Hashtag instance each handler holds
    item,         \* SpecConc: the row each handler was called for
    table_name,   \* SpecName: argument table_name of create_generic_index_name
    fields,       \* SpecName: argument fields
    suffix,       \* SpecName: argument suffix
    result,       \* SpecName: outcome of the last call
    view,         \* SpecView: the GenericViewSet instance serving a request
    ret,          \* SpecView: the method called last on the view and what it returned
    serializer,   \* SpecSerializer: the ModelSerializer being constructed
    default_validators, \* SpecFields: the list Field.default_validators of the class
    field_objs    \* SpecFields: the field instances constructed so far

tagVars == <<tags, rows, auto_remove, last_op>>
concVars == <<pc, loaded, item>>
nameVars == <<table_name, fields, suffix, result>>
restVars == <<view, ret, serializer, default_validators, field_objs>>
vars == <<tagVars, concVars, nameVars, restVars>>

\* the REST framework layer before anything is constructed
NoView == [route |-> "none"]
NoRet == [op |-> "none"]
NoSerializer == [status |-> "none"]
RestIdle ==
    /\ view = NoView
    /\ ret = NoRet
    /\ serializer = NoSerializer
    /\ default_validators = <<>>
    /\ field_objs = <<>>

\* no association row
NoItem == [rel |-> "none", tag |-> "none", created_at |-> 0]

\* a Hashtag as constructed: count default 0, last_used default None
NewHashtag == [exists |-> TRUE, count |-> 0, last_used |-> None]

\* no row in the Hashtag table
NoHashtag == [exists |-> FALSE, count |-> 0, last_used |-> None]

\* no creation handler is running
IdlePc == [p \in 1..NumProcs |-> "idle"]
IdleLoaded == [p \in 1..NumProcs |-> NoHashtag]
IdleItem == [p \in 1..NumProcs |-> NoItem]

\* number of rows in all association tables
TotalRows(rws) == BagCardinality(rws)

\* Model.objects.filter(tag=t) on relation rel: the keys of the rows found
RowsOf(rws, rel, t) == {k \in BagToSet(rws) : k.rel = rel /\ k.tag = t}

\* one row more / one row less with key k
AddRow(rws, k) == rws (+) SetToBag({k})
RemoveRow(rws, k) == rws (-) SetToBag({k})

SetMax(S) == CHOOSE x \in S : \A y \in S : y <= x

(***************************************************************************)
(* post_save_hashtagged_item                                               *)
(***************************************************************************)
\* mutant: last_used is overwritten without comparing it to created_at
IncrementHashtag_AlwaysSetsLastUsed(hashtag, created_at) ==
    [exists |-> TRUE, count |-> hashtag.count + 1, last_used |-> {created_at}]

\* mutant: the handler updates last_used but forgets count += 1
IncrementHashtag_NoCount(hashtag, created_at) ==
    [exists |-> TRUE,
     count |-> hashtag.count,
     last_used |-> IF hashtag.last_used = None
                      \/ (\E lu \in hashtag.last_used : created_at > lu)
                   THEN {created_at}
                   ELSE hashtag.last_used]

\* hashtag.count += 1 and the conditional update of hashtag.last_used, on
\* the Hashtag instance the handler holds
IncrementHashtag(hashtag, created_at) ==
    [exists |-> TRUE,
     count |-> hashtag.count + 1,
     last_used |-> IF hashtag.last_used = None
                      \/ (\E lu \in hashtag.last_used : created_at > lu)
                   THEN {created_at}
                   ELSE hashtag.last_used]

\* the whole handler: tbl is the Hashtag table, inst the saved row
PostSaveHashtaggedItem(tbl, inst, created) ==
    IF IsHashtaggedItemBase(inst.rel) /\ created
    THEN IF IsHashtagBase(inst.tag)
         THEN [tbl EXCEPT ![inst.tag] = IncrementHashtag(tbl[inst.tag], inst.created_at)]
         ELSE tbl
    ELSE tbl

(***************************************************************************)
(* post_delete_hashtagged_item                                             *)
(***************************************************************************)
\* the reverse-reference scan: some relation pointing at the tag's model
\* still has a row referencing the tag
\* mutant: only the usage-counted relations are scanned
TagIsUsed_OnlyHashtagged(rws, t) ==
    \E rel \in {r \in Relations : IsHashtaggedItemBase(r)} : RowsOf(rws, rel, t) # {}

TagIsUsed(rws, t) == \E rel \in Relations : RowsOf(rws, rel, t) # {}

\* tag.delete() runs
RemovesTag(tag_is_used, auto) == tag_is_used = FALSE /\ auto

\* mutant: the recount branch does not ask whether the tag is still used,
\* so it saves a tag that was just deleted
Recounts_IgnoresUsed(tag_is_used, inst) ==
    IsHashtaggedItemBase(inst.rel) /\ IsHashtagBase(inst.tag)

\* mutant: the recount branch does not ask whether the deleted row is a
\* usage-counted one
Recounts_AnyItem(tag_is_used, inst) ==
    tag_is_used = TRUE /\ IsHashtagBase(inst.tag)

\* the guard of the recount branch
Recounts(tag_is_used, inst) ==
    tag_is_used = TRUE /\ IsHashtaggedItemBase(inst.rel) /\ IsHashtagBase(inst.tag)

\* mutant: the rows are ordered by created_at ascending
LatestOf_Oldest(rws, rel, t) ==
    IF RowsOf(rws, rel, t) = {} THEN None
    ELSE {CHOOSE x \in {k.created_at : k \in RowsOf(rws, rel, t)} :
             \A k \in RowsOf(rws, rel, t) : x <= k.created_at}

\* .order_by('-created_at').first() of one relation: its created_at, None
\* when the relation has no row for the tag
LatestOf(rws, rel, t) ==
    IF RowsOf(rws, rel, t) = {} THEN None
    ELSE {SetMax({k.created_at : k \in RowsOf(rws, rel, t)})}

\* the loop over the usage-counted relations: the largest created_at, None
\* when no usage-counted row references the tag
RecomputeLastUsed(rws, t) ==
    LET latest == UNION {LatestOf(rws, rel, t) :
                            rel \in {r \in Relations : IsHashtaggedItemBase(r)}}
    IN IF latest = {} THEN None ELSE {SetMax(latest)}

\* mutant: last_used is recomputed and saved for a used tag whatever the
\* type of the deleted row
PostDeleteHashtaggedItem_RecomputesForAny(tbl, rws, inst, auto) ==
    IF ~IsTaggedItemBase(inst.rel) THEN tbl
    ELSE
    LET tag_is_used == TagIsUsed(rws, inst.tag)
        afterDelete == IF RemovesTag(tag_is_used, auto)
                       THEN [tbl EXCEPT ![inst.tag] = NoHashtag]
                       ELSE tbl
    IN IF Recounts(tag_is_used, inst)
       THEN [afterDelete EXCEPT ![inst.tag] =
                [exists |-> TRUE,
                 count |-> tbl[inst.tag].count - 1,
                 last_used |-> RecomputeLastUsed(rws, inst.tag)]]
       ELSE IF tag_is_used
            THEN [afterDelete EXCEPT ![inst.tag].last_used =
                     RecomputeLastUsed(rws, inst.tag)]
            ELSE afterDelete

\* the whole handler: tbl is the Hashtag table and rws the association
\* tables, both as they are once the row inst has been removed
PostDeleteHashtaggedItem(tbl, rws, inst, auto) ==
    IF ~IsTaggedItemBase(inst.rel) THEN tbl
    ELSE
    LET tag_is_used == TagIsUsed(rws, inst.tag)
        afterDelete == IF RemovesTag(tag_is_used, auto)
                       THEN [tbl EXCEPT ![inst.tag] = NoHashtag]
                       ELSE tbl
    IN IF Recounts(tag_is_used, inst)
       THEN [afterDelete EXCEPT ![inst.tag] =
                [exists |-> TRUE,
                 count |-> tbl[inst.tag].count - 1,
                 last_used |-> RecomputeLastUsed(rws, inst.tag)]]
       ELSE afterDelete

(***************************************************************************)
(* create_generic_index_name.  A Python str is a sequence of one-character *)
(* strings; a Python value is a record carrying its type.                  *)
(***************************************************************************)
Str(chars) == [type |-> "str", val |-> chars]
PyInt == [type |-> "int", val |-> <<>>]
PyNone == [type |-> "NoneType", val |-> <<>>]

\* a collection of values: type is the Python type of the collection
Coll(type, items) == [type |-> type, items |-> items]
NoFields == Coll("NoneType", <<>>)

NoResult == [status |-> "none", name |-> <<>>, columns |-> <<>>]

Digits == {"0", "1", "2", "3", "4", "5", "6", "7", "8", "9"}
HexChars == <<"0", "1", "2", "3", "4", "5", "6", "7", "8", "9", "a", "b", "c", "d", "e", "f">>
UpperChars == <<"A", "B", "C", "D", "E", "F", "G", "H", "I", "J", "K", "L", "M",
                "N", "O", "P", "Q", "R", "S", "T", "U", "V", "W", "X", "Y", "Z">>
LowerChars == <<"a", "b", "c", "d", "e", "f", "g", "h", "i", "j", "k", "l", "m",
                "n", "o", "p", "q", "r", "s", "t", "u", "v", "w", "x", "y", "z">>
OtherChars == <<"0", "1", "2", "3", "4", "5", "6", "7", "8", "9", "_", "-", ".", "\"">>
Alphabet == LowerChars \o UpperChars \o OtherChars

IndexIn(seq, c) == CHOOSE i \in 1..Len(seq) : seq[i] = c

\* str.lower() of one character
LowerChar(c) ==
    IF \E i \in 1..Len(UpperChars) : UpperChars[i] = c
    THEN LowerChars[IndexIn(UpperChars, c)]
    ELSE c

\* str.lower()
Lower(str) == [i \in 1..Len(str) |-> LowerChar(str[i])]

\* s[:n] of Python: a negative n counts from the end
SliceTo(str, n) ==
    IF n >= 0
    THEN SubSeq(str, 1, IF n < Len(str) THEN n ELSE Len(str))
    ELSE SubSeq(str, 1, IF Len(str) + n > 0 THEN Len(str) + n ELSE 0)

\* s[n:] for n >= 0
SliceFrom(str, n) == SubSeq(str, n + 1, Len(str))

RECURSIVE Concat(_)
\* ''.join(strs)
Concat(strs) == IF strs = <<>> THEN <<>> ELSE Head(strs) \o Concat(Tail(strs))

\* str.startswith(prefix) at offset i (1-based)
StartsWithAt(str, i, prefix) ==
    /\ i + Len(prefix) - 1 <= Len(str)
    /\ SubSeq(str, i, i + Len(prefix) - 1) = prefix

\* the positions at or after from where sep occurs in str
Occurrences(str, sep, from) == {i \in from..Len(str) : StartsWithAt(str, i, sep)}

RECURSIVE SplitFrom(_, _, _)
\* str.split(sep): the parts of str from position from on, cut at the
\* leftmost occurrences of sep that do not overlap
SplitFrom(str, sep, from) ==
    IF Occurrences(str, sep, from) = {} THEN <<SubSeq(str, from, Len(str))>>
    ELSE LET i == CHOOSE x \in Occurrences(str, sep, from) :
                     \A y \in Occurrences(str, sep, from) : x <= y
         IN <<SubSeq(str, from, i - 1)>> \o SplitFrom(str, sep, i + Len(sep))

Split(str, sep) == SplitFrom(str, sep, 1)

RECURSIVE LStrip(_, _)
LStrip(str, c) ==
    IF str # <<>> /\ Head(str) = c THEN LStrip(Tail(str), c) ELSE str

RECURSIVE RStrip(_, _)
RStrip(str, c) ==
    IF str # <<>> /\ str[Len(str)] = c
    THEN RStrip(SubSeq(str, 1, Len(str) - 1), c)
    ELSE str

\* str.strip(c)
Strip(str, c) == RStrip(LStrip(str, c), c)

\* the separator split_identifier splits on: quote, dot, quote
IdentifierSeparator == <<"\"", ".", "\"">>

\* django.db.backends.utils.split_identifier:
\*     try: namespace, name = identifier.split('"."')
\*     except ValueError: namespace, name = "", identifier
\*     return namespace.strip('"'), name.strip('"')
split_identifier(identifier) ==
    LET parts == Split(identifier, IdentifierSeparator)
    IN IF Len(parts) = 2
       THEN [namespace |-> Strip(parts[1], "\""), name |-> Strip(parts[2], "\"")]
       ELSE [namespace |-> <<>>, name |-> Strip(identifier, "\"")]

\* table_name = table_name.lower(); _, table_name = split_identifier(table_name)
NormalizeTableName(str) == split_identifier(Lower(str)).name

\* fields_orders: (bare name, order) of every field, a leading '-' removed
FieldsOrders(cols) ==
    [i \in 1..Len(cols) |->
        IF StartsWithAt(cols[i], 1, <<"-">>)
        THEN [field_name |-> SliceFrom(cols[i], 1), order |-> "DESC"]
        ELSE [field_name |-> cols[i], order |-> ""]]

\* mutant: the column names are lowercased like the table name
ColumnNames_Lowercased(cols) ==
    [i \in 1..Len(cols) |-> Lower(FieldsOrders(cols)[i].field_name)]

\* column_names: the bare names
ColumnNames(cols) == [i \in 1..Len(cols) |-> FieldsOrders(cols)[i].field_name]

\* mutant: the sign is left out of the hashed columns
ColumnNamesWithOrder_Bare(cols) == ColumnNames(cols)

\* column_names_with_order: '-' + the bare name for a descending field
ColumnNamesWithOrder(cols) ==
    [i \in 1..Len(cols) |->
        IF FieldsOrders(cols)[i].order # ""
        THEN <<"-">> \o ColumnNames(cols)[i]
        ELSE ColumnNames(cols)[i]]

\* hash_data = [table_name] + column_names_with_order + [suffix]
HashData(table, cols, sfx) == <<table>> \o ColumnNamesWithOrder(cols) \o <<sfx>>

\* mutant: the digest is cut to 8 - len(suffix) characters
HashLength_Eight(sfx) == 8 - Len(sfx)

\* hash_length = 9 - len(suffix)
HashLength(sfx) == 9 - Len(sfx)

\* the stand-in for MD5: a checksum of the bytes fed to the hash, each
\* byte weighted by its position (BagCardinality adds the terms up)
Checksum(data) ==
    BagCardinality([i \in 1..Len(data) |->
                       IndexIn(Alphabet, data[i]) * (i * i + 3 * i + 1)]) % 65521

\* the stand-in for hashlib.md5(...).hexdigest(): 32 hexadecimal digits that
\* depend on nothing but the bytes fed to the hash; the first four are the
\* checksum in base 16
HexDigest(data) ==
    LET h == Checksum(data)
        power == <<1, 16, 256, 4096>>
    IN [i \in 1..32 |->
           HexChars[(((h \div power[((i - 1) % 4) + 1]) + ((i - 1) \div 4)) % 16) + 1]]

\* mutant: a negative length gives an empty digest
names_digest_ClampsLength(args, length) ==
    IF length < 0 THEN <<>> ELSE SliceTo(HexDigest(Concat(args)), length)

\* django.db.backends.utils.names_digest:
\*     h = md5(); for arg in args: h.update(arg.encode())
\*     return h.hexdigest()[:length]
names_digest(args, length) == SliceTo(HexDigest(Concat(args)), length)

\* the f-string that composes the name
ComposeName(table, cols, sfx) ==
    SliceTo(table, 11) \o <<"_">> \o SliceTo(ColumnNames(cols)[1], 7) \o <<"_">>
    \o names_digest(HashData(table, cols, sfx), HashLength(sfx)) \o <<"_">> \o sfx

max_name_length == 30

\* mutant: 'D' is put in front of the name and the last character dropped
ReplaceFirstChar_Prepends(name) ==
    IF name[1] = "_" \/ name[1] \in Digits
    THEN <<"D">> \o SliceTo(name, -1)
    ELSE name

\* a name that starts with '_' or a digit gets 'D' as its first character
ReplaceFirstChar(name) ==
    IF name[1] = "_" \/ name[1] \in Digits
    THEN <<"D">> \o SliceFrom(name, 1)
    ELSE name

\* mutant: a bare str passes as a collection of str
isallinstance_str_AcceptsStr(obj) ==
    IF obj.type \notin {"tuple", "list", "set", "str"} THEN FALSE
    ELSE \A i \in 1..Len(obj.items) : obj.items[i].type = "str"

\* django_utils.helpers.isallinstance(obj, str): obj is a tuple, list or set
\* and every item of it is a str
isallinstance_str(obj) ==
    IF obj.type \notin {"tuple", "list", "set"} THEN FALSE
    ELSE \A i \in 1..Len(obj.items) : obj.items[i].type = "str"

\* the orders in which `for field_name in fields` may visit the items: the
\* order of a tuple or list, any order of a set
IterationOrders(obj) ==
    IF obj.type = "set"
    THEN {[i \in 1..Len(obj.items) |-> obj.items[perm[i]].val] :
             perm \in {f \in [1..Len(obj.items) -> 1..Len(obj.items)] :
                          \A i, j \in 1..Len(obj.items) : f[i] = f[j] => i = j}}
    ELSE {[i \in 1..Len(obj.items) |-> obj.items[i].val]}

Raised(exception) == [status |-> exception, name |-> <<>>, columns |-> <<>>]

\* mutant: with no column the readable column part is left empty
GenerateName_EmptyColumn(tname, cols, sfx) ==
    LET table == NormalizeTableName(tname)
        name == ComposeName(table, IF cols = <<>> THEN <<(<<>>)>> ELSE cols, sfx)
    IN IF Len(name) > max_name_length THEN Raised("ValueError")
       ELSE [status |-> "returned",
             name |-> ReplaceFirstChar(name),
             columns |-> cols]

\* mutant: a composed name that is too long is cut to 30 characters
GenerateName_Truncates(tname, cols, sfx) ==
    LET table == NormalizeTableName(tname)
    IN IF cols = <<>> THEN Raised("IndexError")
       ELSE [status |-> "returned",
             name |-> ReplaceFirstChar(
                          SliceTo(ComposeName(table, cols, sfx), max_name_length)),
             columns |-> cols]

\* mutant: the length of the composed name is not checked
GenerateName_NoLengthCheck(tname, cols, sfx) ==
    LET table == NormalizeTableName(tname)
    IN IF cols = <<>> THEN Raised("IndexError")
       ELSE [status |-> "returned",
             name |-> ReplaceFirstChar(ComposeName(table, cols, sfx)),
             columns |-> cols]

\* the body of create_generic_index_name once the arguments have passed the
\* type checks; cols is fields in the order the comprehension visits it
GenerateName(tname, cols, sfx) ==
    LET table == NormalizeTableName(tname)
    IN IF cols = <<>> THEN Raised("IndexError")
       ELSE LET name == ComposeName(table, cols, sfx)
            IN IF Len(name) > max_name_length THEN Raised("ValueError")
               ELSE [status |-> "returned",
                     name |-> ReplaceFirstChar(name),
                     columns |-> cols]

\* the outcomes of create_generic_index_name(tname, flds, sfx)
create_generic_index_name(tname, flds, sfx) ==
    IF tname.type # "str" THEN {Raised("TypeError")}
    ELSE IF ~isallinstance_str(flds) THEN {Raised("TypeError")}
    ELSE IF sfx.type # "str" THEN {Raised("TypeError")}
    ELSE {GenerateName(tname.val, cols, sfx.val) : cols \in IterationOrders(flds)}

\* create_index_name and create_unique_constraint_name: the generator with
\* the suffixes 'idx' and 'uniq'
create_index_name(tname, column_names) ==
    create_generic_index_name(tname, column_names, Str(<<"i", "d", "x">>))

create_unique_constraint_name(tname, column_names) ==
    create_generic_index_name(tname, column_names, Str(<<"u", "n", "i", "q">>))

(***************************************************************************)
(* The specification of the name generator: the arguments are drawn from   *)
(* the sets below and the function is called on them.                      *)
(***************************************************************************)
\* longest suffix tried
MaxSuffixLen == 11

Repeat(c, n) == [i \in 1..n |-> c]

TableNames ==
    {Str(<<"o", "r", "d", "e", "r", "s">>),
     Str(<<"O", "r", "d", "e", "r", "s">>),
     Str(<<"P", "u", "b", "l", "i", "c", ".", "O", "r", "d", "e", "r", "s">>),
     Str(<<"p", "u", "b", "l", "i", "c", ".", "o", "r", "d", "e", "r", "s">>),
     Str(<<"\"", "P", "u", "b", "l", "i", "c", "\"", ".", "\"", "O", "r", "d", "e", "r", "s", "\"">>),
     Str(<<"2", "f", "a", "_", "c", "o", "d", "e", "s">>),
     Str(<<"_", "t", "m", "p">>),
     Str(<<>>),
     Str(<<"d", "j", "u", "_", "t", "a", "g", "g", "i", "t", "_", "h", "a", "s", "h", "t", "a", "g", "g", "e", "d", "i", "t", "e", "m">>),
     PyInt, PyNone}

ColumnLists ==
    {<<>>,
     <<Str(<<"i", "d">>)>>,
     <<Str(<<"-", "i", "d">>)>>,
     <<Str(<<"I", "D">>)>>,
     <<Str(<<"c", "o", "n", "t", "e", "n", "t", "_", "t", "y", "p", "e">>), Str(<<"o", "b", "j", "e", "c", "t", "_", "i", "d">>), Str(<<"t", "a", "g">>)>>,
     <<Str(<<"a">>), Str(<<"b", "c">>)>>,
     <<Str(<<"a", "b">>), Str(<<"c">>)>>,
     <<Str(<<"-", "C", "r", "e", "a", "t", "e", "d", "A", "t">>), Str(<<"S", "t", "a", "t", "u", "s">>)>>,
     <<Str(<<"-", "c", "r", "e", "a", "t", "e", "d", "a", "t">>), Str(<<"s", "t", "a", "t", "u", "s">>)>>,
     <<Str(<<"S", "t", "a", "t", "u", "s">>), Str(<<"-", "C", "r", "e", "a", "t", "e", "d", "A", "t">>)>>,
     <<Str(<<"i", "d">>), PyInt>>}

FieldsValues ==
    {Coll(type, items) : type \in {"list", "tuple"}, items \in ColumnLists}
    \cup {Coll("set", <<Str(<<"a">>), Str(<<"-", "b">>)>>),
          Coll("set", <<>>),
          Coll("str", <<Str(<<"i">>), Str(<<"d">>)>>),
          NoFields}

Suffixes ==
    {Str(<<"i", "d", "x">>), Str(<<"u", "n", "i", "q">>), PyInt, PyNone}
    \cup {Str(Repeat("x", n)) : n \in 0..MaxSuffixLen}

InitName ==
    /\ tags = [t \in Tags |-> NoHashtag]
    /\ rows = EmptyBag
    /\ auto_remove = FALSE
    /\ last_op = [op |-> "none", key |-> NoItem]
    /\ pc = IdlePc
    /\ loaded = IdleLoaded
    /\ item = IdleItem
    /\ table_name \in TableNames
    /\ fields \in FieldsValues
    /\ suffix \in Suffixes
    /\ result = NoResult
    /\ RestIdle

\* one call of create_generic_index_name on the arguments
Call ==
    /\ result' \in create_generic_index_name(table_name, fields, suffix)
    /\ UNCHANGED <<tagVars, concVars, table_name, fields, suffix, restVars>>

NextName == Call

SpecName == InitName /\ [][NextName]_vars

(***************************************************************************)
(* The sequential specification: one signal handler at a time.             *)
(***************************************************************************)
Init ==
    /\ tags = [t \in Tags |-> NoHashtag]
    /\ rows = EmptyBag
    /\ auto_remove \in BOOLEAN
    /\ last_op = [op |-> "none", key |-> NoItem]
    /\ pc = IdlePc
    /\ loaded = IdleLoaded
    /\ item = IdleItem
    /\ table_name = PyNone
    /\ fields = NoFields
    /\ suffix = PyNone
    /\ result = NoResult
    /\ RestIdle

\* a Hashtag row is inserted
CreateTag(t) ==
    /\ ~tags[t].exists
    /\ tags' = [tags EXCEPT ![t] = NewHashtag]
    /\ last_op' = [op |-> "create_tag", key |-> NoItem]
    /\ UNCHANGED <<rows, auto_remove, concVars, nameVars, restVars>>

\* an association row is inserted and post_save is sent with created=True
CreateItem(k) ==
    /\ tags[k.tag].exists
    /\ tags[k.tag].count < MaxCount
    /\ TotalRows(rows) < MaxRows
    /\ rows' = AddRow(rows, k)
    /\ tags' = PostSaveHashtaggedItem(tags, k, TRUE)
    /\ last_op' = [op |-> "post_save", key |-> k]
    /\ UNCHANGED <<auto_remove, concVars, nameVars, restVars>>

\* mutant: the handler runs while the row is still in its table
DeleteItem_HandlerSeesDeletedRow(k) ==
    /\ BagIn(k, rows)
    /\ rows' = RemoveRow(rows, k)
    /\ tags' = PostDeleteHashtaggedItem(tags, rows, k, auto_remove)
    /\ last_op' = [op |-> "post_delete", key |-> k]
    /\ UNCHANGED <<auto_remove, concVars, nameVars, restVars>>

\* an association row is removed and post_delete is sent
DeleteItem(k) ==
    /\ BagIn(k, rows)
    /\ rows' = RemoveRow(rows, k)
    /\ tags' = PostDeleteHashtaggedItem(tags, rows', k, auto_remove)
    /\ last_op' = [op |-> "post_delete", key |-> k]
    /\ UNCHANGED <<auto_remove, concVars, nameVars, restVars>>

Next ==
    \/ \E t \in Tags : CreateTag(t)
    \/ \E k \in ItemKeys : CreateItem(k)
    \/ \E k \in ItemKeys : DeleteItem(k)

Spec == Init /\ [][Next]_vars

TypeOK ==
    /\ tags \in [Tags -> [exists : BOOLEAN, count : Int, last_used : NullableTimes]]
    /\ IsABag(rows) /\ BagToSet(rows) \subseteq ItemKeys
    /\ auto_remove \in BOOLEAN

(***************************************************************************)
(* The concurrent specification: NumProcs requests each create one         *)
(* HashtaggedItem row for the hashtag h1; post_save_hashtagged_item runs   *)
(* in each of them, and the steps of the handlers interleave.  The handler *)
(* reads the hashtag (instance.tag), changes the instance it holds and     *)
(* writes every field back (hashtag.save()).                               *)
(***************************************************************************)
Procs == 1..NumProcs

ConcTag == "h1"

ConcKeys == {k \in ItemKeys : k.rel = "HashtaggedItem" /\ k.tag = ConcTag}

InitConc ==
    /\ tags = [t \in Tags |-> NewHashtag]
    /\ rows = EmptyBag
    /\ auto_remove \in BOOLEAN
    /\ last_op = [op |-> "none", key |-> NoItem]
    /\ pc = IdlePc
    /\ loaded = IdleLoaded
    /\ item = IdleItem
    /\ table_name = PyNone
    /\ fields = NoFields
    /\ suffix = PyNone
    /\ result = NoResult
    /\ RestIdle

\* the row of request p is inserted; post_save is sent for it
InsertItem(p, k) ==
    /\ pc[p] = "idle"
    /\ rows' = AddRow(rows, k)
    /\ item' = [item EXCEPT ![p] = k]
    /\ pc' = [pc EXCEPT ![p] = "post_save"]
    /\ last_op' = [op |-> "post_save", key |-> k]
    /\ UNCHANGED <<tags, auto_remove, loaded, nameVars, restVars>>

\* hashtag = instance.tag: the handler of p gets its Hashtag instance
ReadTag(p) ==
    /\ pc[p] = "post_save"
    /\ IsHashtaggedItemBase(item[p].rel) /\ IsHashtagBase(item[p].tag)
    /\ loaded' = [loaded EXCEPT ![p] = tags[item[p].tag]]
    /\ pc' = [pc EXCEPT ![p] = "loaded"]
    /\ UNCHANGED <<tagVars, item, nameVars, restVars>>

\* count += 1, the update of last_used and hashtag.save()
SaveTag(p) ==
    /\ pc[p] = "loaded"
    /\ tags' = [tags EXCEPT ![item[p].tag] =
                    IncrementHashtag(loaded[p], item[p].created_at)]
    /\ pc' = [pc EXCEPT ![p] = "done"]
    /\ UNCHANGED <<rows, auto_remove, last_op, loaded, item, nameVars, restVars>>

NextConc ==
    \/ \E p \in Procs : \E k \in ConcKeys : InsertItem(p, k)
    \/ \E p \in Procs : ReadTag(p)
    \/ \E p \in Procs : SaveTag(p)

SpecConc == InitConc /\ [][NextConc]_vars

(***************************************************************************)
(* Vocabulary of the claims about the usage counter.                       *)
(***************************************************************************)
\* the rows of rws whose key is in S
Restrict(rws, S) == [k \in BagToSet(rws) \cap S |-> rws[k]]

\* the keys of the usage-counted association rows referencing t
HashtaggedKeys(t) == {k \in ItemKeys : IsHashtaggedItemBase(k.rel) /\ k.tag = t}

\* number of surviving usage-counted rows referencing t
NumHashtaggedRows(rws, t) == BagCardinality(Restrict(rws, HashtaggedKeys(t)))

\* created_at values of the surviving usage-counted rows referencing t
SurvivingTimes(rws, t) == {k.created_at : k \in BagToSet(rws) \cap HashtaggedKeys(t)}

\* number of surviving rows of any relation referencing t
NumRows(rws, t) == BagCardinality(Restrict(rws, {k \in ItemKeys : k.tag = t}))

\* this step inserted one row k / removed one row k
Inserted(k) == BagCardinality(rows') = BagCardinality(rows) + 1 /\ rows' = AddRow(rows, k)
Removed(k) == BagIn(k, rows) /\ rows' = RemoveRow(rows, k)

\* C1: the stored count of every surviving hashtag equals the number of
\* surviving usage-counted rows that reference it.
C1_CountEqualsRows ==
    \A t \in Tags : tags[t].exists => tags[t].count = NumHashtaggedRows(rows, t)

\* C2: the stored last_used of every surviving hashtag is the largest
\* created_at among the surviving usage-counted rows referencing it, and
\* None when no such row survives.
C2_LastUsedIsLatest ==
    \A t \in Tags : tags[t].exists =>
        /\ SurvivingTimes(rows, t) = {} => tags[t].last_used = None
        /\ SurvivingTimes(rows, t) # {} =>
               tags[t].last_used = {SetMax(SurvivingTimes(rows, t))}

\* C3: with auto-remove disabled, deleting the last remaining row
\* referencing a hashtag whose stored count is 1 leaves the hashtag in the
\* table with count 0 and last_used None.
C3_LastDeleteZeroes ==
    [][\A k \in ItemKeys :
          (/\ Removed(k)
           /\ IsHashtaggedItemBase(k.rel)
           /\ ~auto_remove
           /\ NumRows(rows', k.tag) = 0
           /\ tags[k.tag].count = 1)
          => /\ tags'[k.tag].exists
             /\ tags'[k.tag].count = 0
             /\ tags'[k.tag].last_used = None]_vars

\* C4: with auto-remove enabled, deleting the last remaining row (of any
\* relation) referencing a tag removes the tag, and the handler does not
\* save it back.
C4_AutoRemoveDeletes ==
    [][\A k \in ItemKeys :
          (Removed(k) /\ auto_remove /\ NumRows(rows', k.tag) = 0)
          => ~tags'[k.tag].exists]_vars

\* the last signal was post_delete for the last row of a tag, auto-remove
\* is enabled and the tag is gone
C4_Witness ==
    /\ last_op.op = "post_delete"
    /\ auto_remove
    /\ last_op.key.rel = "HashtaggedItem"
    /\ ~tags[last_op.key.tag].exists
    /\ NumRows(rows, last_op.key.tag) = 0

\* C5: the creation of a usage-counted row raises its hashtag's count by
\* exactly 1, sets last_used to the row's created_at when last_used was
\* None or earlier, and leaves last_used alone otherwise.
C5_CreateIncrements ==
    [][\A k \in ItemKeys :
          (Inserted(k) /\ IsHashtaggedItemBase(k.rel))
          => /\ tags'[k.tag].exists
             /\ tags'[k.tag].count = tags[k.tag].count + 1
             /\ (tags[k.tag].last_used = None
                   => tags'[k.tag].last_used = {k.created_at})
             /\ \A lu \in tags[k.tag].last_used :
                   tags'[k.tag].last_used =
                       IF lu < k.created_at THEN {k.created_at} ELSE {lu}]_vars

\* three rows were created for h1 at created_at 1, 2, 3, the last one just
\* now: count is 3 and last_used is 3
C5_Witness ==
    /\ last_op.op = "post_save"
    /\ last_op.key = [rel |-> "HashtaggedItem", tag |-> "h1", created_at |-> 3]
    /\ \A ts \in 1..3 :
          CopiesIn([rel |-> "HashtaggedItem", tag |-> "h1", created_at |-> ts], rows) = 1
    /\ NumHashtaggedRows(rows, "h1") = 3
    /\ tags["h1"].count = 3
    /\ tags["h1"].last_used = {3}

\* a row was created with a created_at that is not later than last_used
C5_WitnessKept ==
    /\ last_op.op = "post_save"
    /\ IsHashtaggedItemBase(last_op.key.rel)
    /\ \E lu \in tags[last_op.key.tag].last_used : lu > last_op.key.created_at

\* C6: deleting a usage-counted row that is not the most recently created
\* one of its tag lowers the tag's count by exactly 1 and leaves last_used
\* unchanged.
C6_DeleteOlderKeepsLastUsed ==
    [][\A k \in ItemKeys :
          (/\ Removed(k)
           /\ IsHashtaggedItemBase(k.rel)
           /\ k.created_at < SetMax(SurvivingTimes(rows, k.tag)))
          => /\ tags'[k.tag].count = tags[k.tag].count - 1
             /\ tags'[k.tag].last_used = tags[k.tag].last_used]_vars

\* C7: deleting the most recently created usage-counted row of a tag while
\* other usage-counted rows of the tag survive sets last_used to the
\* largest created_at among the survivors, whatever relation they are in.
C7_DeleteLatestRecomputes ==
    [][\A k \in ItemKeys :
          (/\ Removed(k)
           /\ IsHashtaggedItemBase(k.rel)
           /\ k.created_at = SetMax(SurvivingTimes(rows, k.tag))
           /\ SurvivingTimes(rows', k.tag) # {})
          => tags'[k.tag].last_used = {SetMax(SurvivingTimes(rows', k.tag))}]_vars

\* the latest of three rows of a tag was just deleted: the two survivors
\* are older and last_used is the created_at of the later of them
C7_Witness ==
    /\ last_op.op = "post_delete"
    /\ last_op.key = [rel |-> "HashtaggedItem", tag |-> "h1", created_at |-> 3]
    /\ SurvivingTimes(rows, "h1") = {1, 2}
    /\ NumHashtaggedRows(rows, "h1") = 2
    /\ tags["h1"].count = 2
    /\ tags["h1"].last_used = {2}

\* C9: the count of a hashtag never goes below 0.
C9_CountNonNegative == \A t \in Tags : tags[t].count >= 0

\* a deletion has just brought the count of a surviving hashtag down to 0
C9_Witness ==
    /\ last_op.op = "post_delete"
    /\ IsHashtaggedItemBase(last_op.key.rel)
    /\ tags[last_op.key.tag].exists
    /\ tags[last_op.key.tag].count = 0

\* the handlers that have saved their hashtag
Done == {p \in Procs : pc[p] = "done"}

\* C8 as claimed: once all NumProcs interleaved creation handlers have
\* saved, the persisted count is NumProcs higher than before (it was 0).
C8_NoLostIncrement == Done = Procs => tags[ConcTag].count = NumProcs

\* C8 as amended: the persisted count is at most the number of handlers
\* that have saved, and at least 1 once one of them has.
C8_CountWithinBounds ==
    /\ tags[ConcTag].count <= Cardinality(Done)
    /\ Done # {} => tags[ConcTag].count >= 1

\* all handlers have saved and all increments but one are lost
C8_Witness == Done = Procs /\ tags[ConcTag].count = 1 /\ NumProcs > 1

(***************************************************************************)
(* Vocabulary of the claims about the name generator.                      *)
(***************************************************************************)
\* a column without its leading '-'
BareColumn(col) == IF col # <<>> /\ Head(col) = "-" THEN Tail(col) ELSE col

HexDigitSet == {HexChars[i] : i \in 1..Len(HexChars)}

\* name is table[:11] _ col[:7] _ digest _ sfx, the digest being
\* 9 - len(sfx) hexadecimal digits
HasNameForm(name, table, col, sfx) ==
    LET t == SliceTo(table, 11)
        c == SliceTo(col, 7)
        dlen == 9 - Len(sfx)
        dstart == Len(t) + Len(c) + 3
    IN /\ dlen >= 0
       /\ Len(name) = Len(t) + Len(c) + dlen + Len(sfx) + 3
       /\ SubSeq(name, 1, Len(t)) = t
       /\ name[Len(t) + 1] = "_"
       /\ SubSeq(name, Len(t) + 2, Len(t) + 1 + Len(c)) = c
       /\ name[Len(t) + Len(c) + 2] = "_"
       /\ \A i \in dstart..(dstart + dlen - 1) : name[i] \in HexDigitSet
       /\ name[dstart + dlen] = "_"
       /\ SubSeq(name, dstart + dlen + 1, Len(name)) = sfx

\* C10 as claimed: every returned name is table[:11] _ bare first column[:7]
\* _ digest _ suffix with a digest of 9 - len(suffix) characters.
C10_NameForm ==
    result.status = "returned" =>
        HasNameForm(result.name, NormalizeTableName(table_name.val),
                    BareColumn(result.columns[1]), suffix.val)

\* C10 as amended: every returned name has that form once its first
\* character is put back; the first character is that of the composed name,
\* or 'D' when the composed name starts with '_' or a digit.
C10_NameFormUpToFirstChar ==
    result.status = "returned" =>
        LET table == NormalizeTableName(table_name.val)
            first == (SliceTo(table, 11) \o <<"_">>)[1]
        IN /\ HasNameForm(<<first>> \o Tail(result.name), table,
                          BareColumn(result.columns[1]), suffix.val)
           /\ result.name[1] = IF first = "_" \/ first \in Digits THEN "D" ELSE first

\* a name was returned for a table whose name starts with a digit, a
\* descending first column and a second column
C10_Witness ==
    /\ result.status = "returned"
    /\ table_name = Str(<<"2", "f", "a", "_", "c", "o", "d", "e", "s">>)
    /\ Len(result.columns) = 2
    /\ Head(result.columns[1]) = "-"
    /\ suffix = Str(<<"i", "d", "x">>)
    /\ result.name[1] = "D"

(***************************************************************************)
(* C11..C19: the name generator.                                           *)
(***************************************************************************)
\* C11: every name create_generic_index_name returns is at most 30
\* characters long.
C11_NameAtMostThirty ==
    result.status = "returned" => Len(result.name) <= 30

\* a returned name of exactly 30 characters: the table name is cut to 11
\* characters and the first column to 7
C11_Witness ==
    /\ result.status = "returned"
    /\ Len(result.name) = 30
    /\ Len(NormalizeTableName(table_name.val)) > 11
    /\ Len(BareColumn(result.columns[1])) > 7

\* C12: create_generic_index_name is deterministic: every call with the
\* arguments of this call returns the name this call returned, whatever
\* state outside the arguments (here: the iteration order of a set) it meets.
C12_Deterministic ==
    result.status = "returned" =>
        \A other \in create_generic_index_name(table_name, fields, suffix) :
            other.status = "returned" /\ other.name = result.name

\* the str values of a set of Python values
StrValues(values) == {v.val : v \in {x \in values : x.type = "str"}}

\* the column lists whose items are all str, as lists of strings
StrColumnLists ==
    {[i \in 1..Len(c) |-> c[i].val] :
        c \in {x \in ColumnLists : \A i \in 1..Len(x) : x[i].type = "str"}}

\* the triple the digest is meant to tell apart: normalized table name,
\* ordered signed columns, suffix
DigestTriple(tname, cols, sfx) ==
    <<NormalizeTableName(tname), ColumnNamesWithOrder(cols), sfx>>

\* the bytes names_digest feeds to the hash for a call
DigestInput(tname, cols, sfx) ==
    Concat(HashData(NormalizeTableName(tname), cols, sfx))

\* C13: a call whose (normalized table name, ordered signed columns,
\* suffix) differs from this call's feeds different data to the digest.
C13_DistinctDigestInputs ==
    result.status = "returned" =>
        \A t2 \in StrValues(TableNames), c2 \in StrColumnLists \ {<<>>},
           s2 \in StrValues(Suffixes) :
            DigestTriple(t2, c2, s2)
                # DigestTriple(table_name.val, result.columns, suffix.val)
            => DigestInput(t2, c2, s2)
                   # DigestInput(table_name.val, result.columns, suffix.val)

\* the name the f-string composes for this call, before the first character
\* is looked at
Composed == ComposeName(NormalizeTableName(table_name.val), result.columns, suffix.val)

\* C14: no returned name starts with '_' or a digit; when the composed name
\* starts with one, the returned name is the composed name with exactly its
\* first character replaced by 'D'; otherwise it is the composed name.
C14_FirstCharReplaced ==
    result.status = "returned" =>
        /\ result.name[1] # "_" /\ result.name[1] \notin Digits
        /\ Len(result.name) = Len(Composed)
        /\ Tail(result.name) = Tail(Composed)
        /\ result.name[1] =
               IF Composed[1] = "_" \/ Composed[1] \in Digits THEN "D" ELSE Composed[1]

\* a name returned for the empty table name: the composed name starts with
\* the '_' that follows the table part
C14_Witness ==
    /\ result.status = "returned"
    /\ table_name = Str(<<>>)
    /\ Composed[1] = "_"
    /\ result.name = <<"D">> \o Tail(Composed)

\* the arguments of this call pass the three type checks
ValidArgs ==
    /\ table_name.type = "str"
    /\ isallinstance_str(fields)
    /\ suffix.type = "str"

\* the call has been made
Called == result # NoResult

\* the names the f-string can compose for the arguments of this call, one
\* for each order in which fields can be visited
ComposedNames ==
    {ComposeName(NormalizeTableName(table_name.val), cols, suffix.val) :
        cols \in IterationOrders(fields)}

\* C15: a call whose composed name is longer than 30 characters raises
\* ValueError, and a returned name is as long as the composed name: nothing
\* is cut beyond table[:11], column[:7] and the digest.
C15_TooLongRaises ==
    (Called /\ ValidArgs /\ fields.items # <<>>) =>
        /\ (\A name \in ComposedNames : Len(name) > 30) => result.status = "ValueError"
        /\ result.status = "returned" =>
               Len(Composed) <= 30 /\ Len(result.name) = Len(Composed)

\* a suffix of 10 characters on a table name longer than 11 and a first
\* column longer than 7 characters: the call raised ValueError
C15_Witness ==
    /\ result.status = "ValueError"
    /\ ValidArgs
    /\ Len(suffix.val) = 10
    /\ Len(NormalizeTableName(table_name.val)) > 11
    /\ Len(fields.items) = 3
    /\ \A name \in ComposedNames : Len(name) > 30

\* C16: a call raises TypeError, and composes no name, when table_name is
\* not a str, when fields is not a tuple, list or set of str (a bare str
\* included), or when suffix is not a str; this holds whatever the other
\* arguments would have led to (no columns, a name that is too long).
C16_TypeErrorFirst ==
    (Called /\ (\/ table_name.type # "str"
                \/ fields.type \notin {"tuple", "list", "set"}
                \/ \E i \in 1..Len(fields.items) : fields.items[i].type # "str"
                \/ suffix.type # "str")) =>
        result = Raised("TypeError")

\* a bare str was passed as fields and the call raised TypeError
C16_Witness ==
    /\ result.status = "TypeError"
    /\ table_name.type = "str"
    /\ suffix.type = "str"
    /\ fields.type = "str"
    /\ \A i \in 1..Len(fields.items) : fields.items[i].type = "str"

\* the outcomes that are errors raised to the caller
Errors == {Raised("TypeError"), Raised("IndexError"), Raised("ValueError")}

\* C17: a call with an empty collection of columns ends in an error raised
\* to the caller and returns no name.
C17_EmptyColumnsFail ==
    (Called /\ fields.type \in {"tuple", "list", "set"} /\ fields.items = <<>>) =>
        result \in Errors

\* valid table name and suffix, an empty set of columns: column_names[0]
\* raised IndexError
C17_Witness ==
    /\ result.status = "IndexError"
    /\ fields = Coll("set", <<>>)
    /\ table_name = Str(<<"o", "r", "d", "e", "r", "s">>)
    /\ suffix = Str(<<"i", "d", "x">>)

\* the lowercase local name of a table name: what follows its last '.',
\* without quotes, in lower case
LocalName(str) ==
    LET dots == Occurrences(str, <<".">>, 1)
        local == IF dots = {} THEN str ELSE SliceFrom(str, SetMax(dots))
    IN Lower(Strip(local, "\""))

\* C18: the result for a schema-qualified or mixed-case table name is the
\* result for its lowercase local name with the same columns and suffix.
C18_SchemaQualifierStripped ==
    result.status = "returned" =>
        result = GenerateName(LocalName(table_name.val), result.columns, suffix.val)

\* a column with its sign flipped: "-c" for "c" and "c" for "-c"
ToggleSign(col) == IF col # <<>> /\ Head(col) = "-" THEN Tail(col) ELSE <<"-">> \o col

\* the columns of this call with the sign of the first one flipped
SignFlipped == [result.columns EXCEPT ![1] = ToggleSign(result.columns[1])]

\* table[:11] _ c[:7] for the bare first column c of this call
ReadablePrefix ==
    SliceTo(NormalizeTableName(table_name.val), 11) \o <<"_">>
    \o SliceTo(BareColumn(result.columns[1]), 7)

\* C19: the same call with the sign of its first column flipped ("-c"
\* against "c") returns a name with the same readable prefix
\* table[:11]_c[:7], the '-' not being part of it, and feeds different data
\* to the digest.
C19_SignOnlyInDigest ==
    result.status = "returned" =>
        LET other == GenerateName(table_name.val, SignFlipped, suffix.val)
            plen == Len(ReadablePrefix)
        IN /\ other.status = "returned"
           /\ Tail(SubSeq(result.name, 1, plen)) = Tail(ReadablePrefix)
           /\ SubSeq(other.name, 1, plen) = SubSeq(result.name, 1, plen)
           /\ result.name[plen + 1] = "_" /\ other.name[plen + 1] = "_"
           /\ DigestInput(table_name.val, result.columns, suffix.val)
                  # DigestInput(table_name.val, SignFlipped, suffix.val)

\* a name returned for the single descending column "-id"
C19_Witness ==
    /\ result.status = "returned"
    /\ result.columns = << <<"-", "i", "d">> >>
    /\ table_name = Str(<<"o", "r", "d", "e", "r", "s">>)
    /\ suffix = Str(<<"u", "n", "i", "q">>)
    /\ SubSeq(result.name, 1, 10) = <<"o", "r", "d", "e", "r", "s", "_", "i", "d", "_">>

(***************************************************************************)
(* C20: what the deletion handler sees.                                    *)
(***************************************************************************)
\* C20: the deletion handler works on the tables as they are without the
\* deleted row.  When the deleted row was the last one referencing its tag,
\* the handler finds the tag unused: it deletes the tag under auto-remove
\* and otherwise neither deletes nor saves it.  When other rows survive and
\* the deleted row was usage-counted, last_used becomes the latest
\* created_at of the surviving usage-counted rows, None when there is none.
C20_HandlerSeesPostDeletion ==
    [][\A k \in ItemKeys :
          Removed(k) =>
             /\ (NumRows(rows', k.tag) = 0 /\ auto_remove) => ~tags'[k.tag].exists
             /\ (NumRows(rows', k.tag) = 0 /\ ~auto_remove) => tags'[k.tag] = tags[k.tag]
             /\ (NumRows(rows', k.tag) > 0 /\ IsHashtaggedItemBase(k.rel)) =>
                    tags'[k.tag].last_used =
                        IF SurvivingTimes(rows', k.tag) = {} THEN None
                        ELSE {SetMax(SurvivingTimes(rows', k.tag))}]_vars

\* the only usage-counted row of h1 was just deleted while a plain
\* TaggedItem row of h1 survives: the recomputation found no usage-counted
\* row and last_used is None
C20_Witness ==
    /\ last_op.op = "post_delete"
    /\ last_op.key = [rel |-> "HashtaggedItem", tag |-> "h1", created_at |-> 2]
    /\ NumRows(rows, "h1") = 1
    /\ NumHashtaggedRows(rows, "h1") = 0
    /\ tags["h1"].exists
    /\ tags["h1"].last_used = None
    /\ tags["h1"].count = 0

(***************************************************************************)
(* C21, C24: the deletion handler and rows that are not usage-counted.     *)
(***************************************************************************)
\* C21: a tag disappears only under auto-remove and only when no row of any
\* relation, usage-counted or not, references it any longer.
C21_AutoRemoveOnlyUnused ==
    [][\A t \in Tags :
          (tags[t].exists /\ ~tags'[t].exists)
          => auto_remove /\ NumRows(rows', t) = 0]_vars

\* under auto-remove the last usage-counted row of h2 was just deleted, a
\* plain TaggedItem row still references h2, and h2 is still there
C21_Witness ==
    /\ auto_remove
    /\ last_op.op = "post_delete"
    /\ last_op.key.rel = "HashtaggedItem"
    /\ last_op.key.tag = "h2"
    /\ NumHashtaggedRows(rows, "h2") = 0
    /\ NumRows(rows, "h2") = 1
    /\ tags["h2"].exists

(***************************************************************************)
(* C22, C23: letter case and the length of the suffix.                     *)
(***************************************************************************)
\* str.upper() of one character and of a string
UpperChar(c) ==
    IF \E i \in 1..Len(LowerChars) : LowerChars[i] = c
    THEN UpperChars[IndexIn(LowerChars, c)]
    ELSE c

Upper(str) == [i \in 1..Len(str) |-> UpperChar(str[i])]

\* the column lists that differ from cols in the letter case of one column
CaseVariants(cols) ==
    ({[cols EXCEPT ![i] = Upper(cols[i])] : i \in 1..Len(cols)}
     \cup {[cols EXCEPT ![i] = Lower(cols[i])] : i \in 1..Len(cols)}) \ {cols}

\* the table names tried that differ from this call's in letter case at most
SameTableUpToCase ==
    {t \in StrValues(TableNames) : Lower(t) = Lower(table_name.val)}

\* column[:7] for the bare first column of cols
ReadableColumn(cols) == SliceTo(BareColumn(cols[1]), 7)

\* C22 as claimed: a call whose columns differ from this call's only in
\* letter case returns a different name, and a call whose table name
\* differs only in letter case returns the same name.
C22_ColumnCaseChangesName ==
    result.status = "returned" =>
        /\ \A t \in SameTableUpToCase :
               GenerateName(t, result.columns, suffix.val) = result
        /\ \A cols \in CaseVariants(result.columns) :
               GenerateName(table_name.val, cols, suffix.val).name # result.name

\* C22 as amended: the table name is lowercased and the columns are not: a
\* call whose table name differs only in letter case returns the same name;
\* a call whose columns differ only in letter case has a different digest
\* input and carries its first column as given in the readable part; its
\* name differs when the first seven characters of the first column differ,
\* and is the same name when they do not and the suffix has 9 characters,
\* the digest then being empty.
C22_ColumnCaseKept ==
    result.status = "returned" =>
        /\ \A t \in SameTableUpToCase :
               GenerateName(t, result.columns, suffix.val) = result
        /\ \A cols \in CaseVariants(result.columns) :
               LET other == GenerateName(table_name.val, cols, suffix.val)
                   start == Len(SliceTo(NormalizeTableName(table_name.val), 11)) + 2
               IN /\ other.status = "returned"
                  /\ DigestInput(table_name.val, cols, suffix.val)
                         # DigestInput(table_name.val, result.columns, suffix.val)
                  /\ SubSeq(other.name, start, start + Len(ReadableColumn(cols)) - 1)
                         = ReadableColumn(cols)
                  /\ ReadableColumn(cols) # ReadableColumn(result.columns)
                         => other.name # result.name
                  /\ (/\ ReadableColumn(cols) = ReadableColumn(result.columns)
                      /\ Len(suffix.val) = 9)
                         => other.name = result.name

\* a name returned for two columns and a suffix of 9 characters: the call
\* with the second column in upper case returns the same name
C22_Witness ==
    /\ result.status = "returned"
    /\ Len(suffix.val) = 9
    /\ result.columns = << <<"a">>, <<"b", "c">> >>
    /\ GenerateName(table_name.val, << <<"a">>, <<"B", "C">> >>, suffix.val).name
           = result.name
    /\ table_name = Str(<<"O", "r", "d", "e", "r", "s">>)

\* C23: for a str table name, a non-empty collection of str columns and a
\* str suffix, the call raises ValueError exactly when the suffix is longer
\* than 9 characters and returns a name otherwise; create_index_name and
\* create_unique_constraint_name on the same table and columns return a name.
C23_ValueErrorIffLongSuffix ==
    (Called /\ ValidArgs /\ fields.items # <<>>) =>
        /\ result.status = "ValueError" <=> Len(suffix.val) > 9
        /\ result.status = "returned" <=> Len(suffix.val) <= 9
        /\ \A r \in create_index_name(table_name, fields)
                    \cup create_unique_constraint_name(table_name, fields) :
               r.status = "returned"

\* the shortest names tried, an empty table name and the column "id", with
\* a suffix of 10 characters: the call raised ValueError
C23_Witness ==
    /\ result.status = "ValueError"
    /\ table_name = Str(<<>>)
    /\ fields = Coll("list", <<Str(<<"i", "d">>)>>)
    /\ Len(suffix.val) = 10

\* C24: the deletion of a row that is not usage-counted, or whose tag is
\* not a usage-counted tag, leaves the count and last_used of every tag as
\* they were; the only change it can bring is the auto-removal of its tag.
C24_PlainDeleteKeepsCounters ==
    [][\A k \in ItemKeys :
          (Removed(k) /\ (~IsHashtaggedItemBase(k.rel) \/ ~IsHashtagBase(k.tag)))
          => \A t \in Tags :
                \/ tags'[t] = tags[t]
                \/ /\ t = k.tag
                   /\ auto_remove
                   /\ NumRows(rows', t) = 0
                   /\ ~tags'[t].exists]_vars

\* a plain TaggedItem row of h1 was just deleted while usage-counted rows of
\* h1 created at 1 and 2 survive and last_used is 3, left by an earlier
\* deletion: count and last_used were not recomputed
C24_Witness ==
    /\ last_op.op = "post_delete"
    /\ last_op.key.rel = "TaggedItem"
    /\ last_op.key.tag = "h1"
    /\ SurvivingTimes(rows, "h1") = {1, 2}
    /\ tags["h1"].exists
    /\ tags["h1"].last_used = {3}

(***************************************************************************)
(* The REST framework layer: GenericViewSet and ResponseSerializerMixin.   *)
(* A view is a record: the route it was bound to, the method of the        *)
(* request, the class attributes that configure it and the instance        *)
(* attributes set so far.  Python's None is the string "None".             *)
(***************************************************************************)
NoneValue == "None"

ViewActions == {"create", "retrieve", "update", "partial_update", "destroy", "list"}

HttpMethods == {"GET", "POST", "PUT", "PATCH", "DELETE", "HEAD", "OPTIONS"}

\* str.lower() of a request method
MethodLower(method) ==
    CASE method = "GET" -> "get"
      [] method = "POST" -> "post"
      [] method = "PUT" -> "put"
      [] method = "PATCH" -> "patch"
      [] method = "DELETE" -> "delete"
      [] method = "HEAD" -> "head"
      [] method = "OPTIONS" -> "options"

\* self.action_map: the actions the router binds to the methods of the list
\* route and of the detail route; head is bound to the handler of get
action_map(route) ==
    IF route = "list"
    THEN [m \in {"get", "head", "post"} |->
             IF m = "post" THEN "create" ELSE "list"]
    ELSE [m \in {"get", "head", "put", "patch", "delete"} |->
             CASE m \in {"get", "head"} -> "retrieve"
               [] m = "put" -> "update"
               [] m = "patch" -> "partial_update"
               [] m = "delete" -> "destroy"]

\* dict.get(key, default)
DictGet(dict, key, default) == IF key \in DOMAIN dict THEN dict[key] ELSE default

\* getattr(self, name, default) on the instance attributes of the view
GetAttr(v, name, default) == DictGet(v.attrs, name, default)

\* self.name = value
SetAttr(v, name, value) ==
    [v EXCEPT !.attrs = [n \in DOMAIN v.attrs \cup {name} |->
                            IF n = name THEN value ELSE v.attrs[n]]]

\* GenericViewSet.get_action_from_request
get_action_from_request(v) ==
    IF v.method # NoneValue
    THEN DictGet(action_map(v.route), MethodLower(v.method), NoneValue)
    ELSE v.action

\* ResponseSerializerMixin.get_serializer_class; super() is GenericAPIView,
\* which returns self.serializer_class
ResponseSerializerMixin_get_serializer_class(v) ==
    LET serializer_class ==
            IF GetAttr(v, "_is_response", FALSE)
            THEN DictGet(v.serializer_classes, "retrieve", NoneValue)
            ELSE NoneValue
    IN IF serializer_class = NoneValue THEN v.serializer_class ELSE serializer_class

\* mutant: the entry of the action of the request is not looked up
get_serializer_class_NoLookup(v) == ResponseSerializerMixin_get_serializer_class(v)

\* GenericViewSet.get_serializer_class; super() is ResponseSerializerMixin
get_serializer_class(v) ==
    LET from_request == get_action_from_request(v)
        action == IF from_request = "partial_update"
                     /\ "partial_update" \notin DOMAIN v.serializer_classes
                  THEN "update" ELSE from_request
        serializer_class == DictGet(v.serializer_classes, action, NoneValue)
    IN IF serializer_class = NoneValue
       THEN ResponseSerializerMixin_get_serializer_class(v)
       ELSE serializer_class

\* ResponseSerializerMixin.get_queryset; super() is GenericAPIView, which
\* returns self.queryset
ResponseSerializerMixin_get_queryset(v) ==
    LET queryset ==
            IF GetAttr(v, "_is_response", FALSE)
            THEN DictGet(v.querysets, "retrieve", NoneValue)
            ELSE NoneValue
    IN IF queryset = NoneValue THEN v.queryset ELSE queryset

\* GenericViewSet.get_queryset: the queryset chosen and whether the filter
\* on the owner is applied to it
get_queryset(v) ==
    LET from_request == get_action_from_request(v)
        action == IF from_request = "partial_update"
                     /\ "partial_update" \notin DOMAIN v.querysets
                  THEN "update" ELSE from_request
        queryset == DictGet(v.querysets, action, NoneValue)
    IN [queryset |-> IF queryset = NoneValue
                     THEN ResponseSerializerMixin_get_queryset(v)
                     ELSE queryset,
        owner_filter |-> v.action = "list" /\ v.owner_field # NoneValue]

\* what a lookup of the object returned: the instance passed in or one
\* fetched again by primary key, the queryset it was fetched from, and
\* whether check_object_permissions ran
NoObject ==
    [source |-> "none", queryset |-> NoneValue, owner_filter |-> FALSE,
     permission_checked |-> FALSE]

\* ResponseSerializerMixin.get_object_by_pk(pk=...)
get_object_by_pk(v) ==
    [source |-> "refetched",
     queryset |-> get_queryset(v).queryset,
     owner_filter |-> get_queryset(v).owner_filter,
     permission_checked |-> ~GetAttr(v, "_is_response", FALSE)]

\* ResponseSerializerMixin.get_object(obj) for an obj that is a Model
get_object(v) ==
    IF GetAttr(v, "_is_response", FALSE)
    THEN get_object_by_pk(v)
    ELSE [NoObject EXCEPT !.source = "passed"]

\* ResponseSerializerMixin.get_response_object(obj) for an obj that is a
\* Model: the view afterwards and the object returned
\* (line 28 assigns self.is_response, not self._is_response)
get_response_object(v) ==
    LET is_response == GetAttr(v, "_is_response", FALSE)
        flagged == SetAttr(v, "is_response", TRUE)
    IN [view |-> SetAttr(flagged, "_is_response", is_response),
        obj |-> get_object(flagged)]

\* the serializer classes that derive from django_utils' ModelSerializer
ModelSerializerClasses == {"CreateSerializer", "RetrieveSerializer", "PartialUpdateSerializer"}

\* ResponseSerializerMixin.get_response_serializer(instance, serializer,
\* get_object) for a serializer of class serializer_cls: the view afterwards,
\* the class of the serializer returned, whether it is the one passed in,
\* the object it was built on, and what the construction raised: the
\* serializer is built without data, and ModelSerializer.__init__ rejects
\* the default of data, the class empty, which is no instance of itself
get_response_serializer(v, serializer_cls, with_object) ==
    LET is_response == GetAttr(v, "_is_response", FALSE)
        response_serializer_class == get_serializer_class(SetAttr(v, "_is_response", TRUE))
        restored == SetAttr(v, "_is_response", is_response)
    IN IF response_serializer_class # serializer_cls
          \/ response_serializer_class \in ModelSerializerClasses
       THEN LET fetched == get_response_object(restored)
            IN [view |-> IF with_object THEN fetched.view ELSE restored,
                cls |-> response_serializer_class,
                reused |-> FALSE,
                obj |-> IF with_object THEN fetched.obj
                        ELSE [NoObject EXCEPT !.source = "passed"],
                raised |-> IF response_serializer_class \in ModelSerializerClasses
                           THEN "TypeError" ELSE NoneValue]
       ELSE [view |-> restored, cls |-> serializer_cls, reused |-> TRUE,
             obj |-> NoObject, raised |-> NoneValue]

\* self.allowed_methods: the methods a handler is bound to, and OPTIONS
allowed_methods(route) ==
    {m \in HttpMethods : MethodLower(m) \in DOMAIN action_map(route)} \cup {"OPTIONS"}

\* the methods get_permissions tries for an OPTIONS request, in order: those
\* of an object when the lookup keyword argument is set, else those of a list
OptionsMethods(route) ==
    IF route = "detail"
    THEN <<"GET", "PUT", "PATCH", "DELETE", "HEAD", "OPTIONS">>
    ELSE <<"GET", "POST", "HEAD", "OPTIONS">>

\* the positions in OptionsMethods whose method is allowed, bound to an
\* action, and whose action has an entry in permission_classes
OptionsCandidates(v) ==
    {i \in 1..Len(OptionsMethods(v.route)) :
        LET method == OptionsMethods(v.route)[i]
        IN /\ method \in allowed_methods(v.route)
           /\ MethodLower(method) \in DOMAIN action_map(v.route)
           /\ action_map(v.route)[MethodLower(method)]
                  \in DOMAIN v.permission_classes.entries}

\* mutant: an action without an entry gets no permission class, the
\* 'default' entry is not looked at
get_permissions_NoDefault(v) ==
    IF v.permission_classes.kind = "dict"
    THEN DictGet(v.permission_classes.entries, get_action_from_request(v), <<>>)
    ELSE v.permission_classes.classes

\* GenericViewSet.get_permissions: the classes instantiated, in order
get_permissions(v) ==
    IF v.permission_classes.kind = "dict"
    THEN LET entries == v.permission_classes.entries
             from_request == get_action_from_request(v)
             action == IF from_request = "partial_update"
                          /\ "partial_update" \notin DOMAIN entries
                       THEN "update" ELSE from_request
             permission_classes ==
                 DictGet(entries, action, DictGet(entries, "default", <<>>))
         IN IF /\ v.method # NoneValue
               /\ MethodLower(v.method) = "options"
               /\ permission_classes = <<>>
               /\ OptionsCandidates(v) # {}
            THEN LET first == CHOOSE i \in OptionsCandidates(v) :
                                  \A j \in OptionsCandidates(v) : i <= j
                 IN entries[action_map(v.route)[MethodLower(OptionsMethods(v.route)[first])]]
            ELSE permission_classes
    ELSE v.permission_classes.classes

(***************************************************************************)
(* The specifications of the view: a view configured in one of the ways    *)
(* below serves a request and its methods are called.                      *)
(***************************************************************************)
\* the serializer class and the queryset configured for an action
SerializerClassOf(action) ==
    CASE action = "create" -> "CreateSerializer"
      [] action = "retrieve" -> "RetrieveSerializer"
      [] action = "update" -> "UpdateSerializer"
      [] action = "partial_update" -> "PartialUpdateSerializer"

QuerysetOf(action) ==
    CASE action = "retrieve" -> "RetrieveQueryset"
      [] action = "update" -> "UpdateQueryset"

SerializerClassesValues ==
    {[a \in S |-> SerializerClassOf(a)] :
        S \in SUBSET {"create", "retrieve", "update", "partial_update"}}

QuerysetsValues ==
    {[a \in S |-> QuerysetOf(a)] : S \in {{}, {"retrieve"}, {"retrieve", "update"}}}

\* the instance attributes a view may carry when a method is called
AttrsValues ==
    {[n \in {} |-> FALSE]} \cup {[n \in {"_is_response"} |-> b] : b \in BOOLEAN}

\* permission_classes: a list of classes, or a dict from actions and
\* 'default' to lists of classes; the list of a key holds one class, named
\* after the key, or is empty
NoEntries == [k \in {} |-> <<>>]

PermissionClassesValues ==
    {[kind |-> "list", classes |-> c, entries |-> NoEntries] :
        c \in {<<>>, <<"IsAuthenticated">>, <<"IsAuthenticated", "IsOwner">>}}
    \cup {[kind |-> "dict", classes |-> <<>>,
           entries |-> [k \in S |-> IF k \in E THEN <<>> ELSE <<k>>]] :
              S \in SUBSET {"create", "retrieve", "update", "partial_update", "default"},
              E \in {{}, {"default"}, {"retrieve"}}}

\* self.action as the dispatch of the request sets it
DispatchedAction(route, method) ==
    IF method = NoneValue THEN (IF route = "list" THEN "list" ELSE "retrieve")
    ELSE IF method = "OPTIONS" THEN "metadata"
    ELSE DictGet(action_map(route), MethodLower(method), NoneValue)

\* the methods a request of the route can carry; "None" stands for a
\* request without a method
RouteMethods(route) == allowed_methods(route) \cup {NoneValue}

Views(serializer_configs, queryset_configs, permission_configs) ==
    {[route |-> r, method |-> m, action |-> DispatchedAction(r, m),
      serializer_classes |-> sc, serializer_class |-> "DefaultSerializer",
      querysets |-> qs, queryset |-> "DefaultQueryset", owner_field |-> of,
      permission_classes |-> perms, attrs |-> at] :
        r \in {"list", "detail"}, m \in HttpMethods \cup {NoneValue},
        sc \in serializer_configs, qs \in queryset_configs,
        of \in {NoneValue, "owner"}, perms \in permission_configs,
        at \in AttrsValues}

\* the outcome of a method of the view
NoPermissions == <<"none">>

Returned(op, cls, perms, obj, reused) ==
    [op |-> op, cls |-> cls, perms |-> perms, obj |-> obj, reused |-> reused,
     raised |-> NoneValue]

OtherIdle ==
    /\ tags = [t \in Tags |-> NoHashtag]
    /\ rows = EmptyBag
    /\ auto_remove = FALSE
    /\ last_op = [op |-> "none", key |-> NoItem]
    /\ pc = IdlePc
    /\ loaded = IdleLoaded
    /\ item = IdleItem
    /\ table_name = PyNone
    /\ fields = NoFields
    /\ suffix = PyNone
    /\ result = NoResult

InitView ==
    /\ OtherIdle
    /\ view \in {v \in Views(SerializerClassesValues, QuerysetsValues,
                              {[kind |-> "list", classes |-> <<>>, entries |-> NoEntries]}) :
                    v.method \in RouteMethods(v.route)}
    /\ ret = NoRet
    /\ serializer = NoSerializer
    /\ default_validators = <<>>
    /\ field_objs = <<>>

ViewFrame ==
    UNCHANGED <<tagVars, concVars, nameVars, serializer, default_validators, field_objs>>

\* self.get_serializer_class() is called
CallGetSerializerClass ==
    /\ ret' = Returned("get_serializer_class", get_serializer_class(view),
                       NoPermissions, NoObject, FALSE)
    /\ UNCHANGED view
    /\ ViewFrame

\* create or update calls self.get_response_serializer(instance, serializer)
\* with the serializer self.get_serializer() gave it
CallGetResponseSerializer(with_object) ==
    LET called == get_response_serializer(view, get_serializer_class(view), with_object)
    IN /\ view' = called.view
       /\ ret' = [Returned("get_response_serializer", called.cls, NoPermissions,
                           called.obj, called.reused)
                     EXCEPT !.raised = called.raised]
       /\ ViewFrame

\* self.get_response_object(obj) is called
CallGetResponseObject ==
    LET called == get_response_object(view)
    IN /\ view' = called.view
       /\ ret' = Returned("get_response_object", NoneValue, NoPermissions,
                          called.obj, FALSE)
       /\ ViewFrame

NextView ==
    \/ CallGetSerializerClass
    \/ \E with_object \in BOOLEAN : CallGetResponseSerializer(with_object)
    \/ CallGetResponseObject

SpecView == InitView /\ [][NextView]_vars

InitPerm ==
    /\ OtherIdle
    /\ view \in {v \in Views({[a \in {} |-> NoneValue]}, {[a \in {} |-> NoneValue]},
                              PermissionClassesValues) :
                    v.method \in RouteMethods(v.route)}
    /\ ret = NoRet
    /\ serializer = NoSerializer
    /\ default_validators = <<>>
    /\ field_objs = <<>>

\* self.get_permissions() is called
CallGetPermissions ==
    /\ ret' = Returned("get_permissions", NoneValue, get_permissions(view),
                       NoObject, FALSE)
    /\ UNCHANGED view
    /\ ViewFrame

NextPerm == CallGetPermissions

SpecPerm == InitPerm /\ [][NextPerm]_vars

(***************************************************************************)
(* C25..C29: the view.                                                     *)
(***************************************************************************)
\* the action of the request being served: the one its method is bound to,
\* self.action for a request without a method
RequestAction ==
    IF view.method = NoneValue THEN view.action
    ELSE IF MethodLower(view.method) \in DOMAIN action_map(view.route)
    THEN action_map(view.route)[MethodLower(view.method)]
    ELSE NoneValue

HasSerializer(action) == action \in DOMAIN view.serializer_classes

\* the view is inside get_response_serializer
InResponse == "_is_response" \in DOMAIN view.attrs /\ view.attrs["_is_response"]

\* C25: get_serializer_class returns the entry of serializer_classes for
\* the action of the request when there is one; for partial_update without
\* an entry, the entry of update; and when no entry applies what the parent
\* view returns: its serializer_class, or inside a response the entry of
\* retrieve when there is one.
C25_SerializerByAction ==
    ret.op = "get_serializer_class" =>
        ret.cls =
            IF HasSerializer(RequestAction) THEN view.serializer_classes[RequestAction]
            ELSE IF RequestAction = "partial_update" /\ HasSerializer("update")
            THEN view.serializer_classes["update"]
            ELSE IF InResponse /\ HasSerializer("retrieve")
            THEN view.serializer_classes["retrieve"]
            ELSE view.serializer_class

\* a PATCH request on a view with an entry for update and none for
\* partial_update: get_serializer_class returned the entry of update
C25_Witness ==
    /\ ret.op = "get_serializer_class"
    /\ view.method = "PATCH"
    /\ HasSerializer("update") /\ ~HasSerializer("partial_update")
    /\ ret.cls = "UpdateSerializer"

PermissionEntries == view.permission_classes.entries

HasPermissions(key) == key \in DOMAIN PermissionEntries

\* the classes listed for the action of the request (for partial_update
\* without an entry, for update), else for 'default', else none
ListedPermissions ==
    LET action == IF RequestAction = "partial_update" /\ ~HasPermissions("partial_update")
                  THEN "update" ELSE RequestAction
    IN IF HasPermissions(action) THEN PermissionEntries[action]
       ELSE IF HasPermissions("default") THEN PermissionEntries["default"]
       ELSE <<>>

\* C26 as claimed: with a dict, get_permissions instantiates the classes
\* listed for the action of the request (for partial_update without an
\* entry, those of update), else those of 'default', else none; without a
\* dict, every class of permission_classes.
C26_PermissionsByAction ==
    ret.op = "get_permissions" =>
        ret.perms = IF view.permission_classes.kind = "dict"
                    THEN ListedPermissions
                    ELSE view.permission_classes.classes

\* the actions an OPTIONS request borrows permission classes from, in
\* order: those bound to GET, PUT, PATCH and DELETE on the detail route, to
\* GET and POST on the list route
BorrowedActions ==
    IF view.route = "detail"
    THEN <<"retrieve", "update", "partial_update", "destroy">>
    ELSE <<"list", "create">>

\* the classes of the first of BorrowedActions that has an entry
BorrowedPermissions ==
    LET having == {i \in 1..Len(BorrowedActions) : HasPermissions(BorrowedActions[i])}
    IN IF having = {} THEN <<>>
       ELSE PermissionEntries[BorrowedActions[CHOOSE i \in having : \A j \in having : i <= j]]

\* C26 as amended: as claimed, except that an OPTIONS request for which no
\* class is listed that way gets the classes of the first action, among
\* those bound to the other methods of its route, that has an entry.
C26_PermissionsByActionOrBorrowed ==
    ret.op = "get_permissions" =>
        ret.perms =
            IF view.permission_classes.kind # "dict"
            THEN view.permission_classes.classes
            ELSE IF view.method = "OPTIONS" /\ ListedPermissions = <<>>
            THEN BorrowedPermissions
            ELSE ListedPermissions

\* an OPTIONS request on the detail route of a view whose dict has an entry
\* for update only: the classes of update were instantiated
C26_Witness ==
    /\ ret.op = "get_permissions"
    /\ view.method = "OPTIONS"
    /\ view.route = "detail"
    /\ view.permission_classes.kind = "dict"
    /\ DOMAIN PermissionEntries = {"update"}
    /\ ret.perms = <<"update">>

\* C28: on a view whose serializer_classes has an entry for retrieve, the
\* serializer get_response_serializer returns is of the class of that entry,
\* whatever the action of the request.
C28_ResponseUsesRetrieve ==
    (/\ ret.op = "get_response_serializer"
     /\ ret.raised = NoneValue
     /\ HasSerializer("retrieve")) =>
        ret.cls = view.serializer_classes["retrieve"]

\* C29: get_response_object fetches the instance again through
\* get_object_by_pk, without the check of the object permissions, and
\* leaves _is_response with the value it had before the call.
C29_ResponseObjectRefetched ==
    [][ret'.op = "get_response_object" =>
          /\ ret'.obj.source = "refetched"
          /\ ~ret'.obj.permission_checked
          /\ GetAttr(view', "_is_response", FALSE)
                 = GetAttr(view, "_is_response", FALSE)]_vars

(***************************************************************************)
(* ModelSerializer: the fields of a serializer are cut down to the ones    *)
(* Meta.allowed_fields allows for the action of the request.               *)
(***************************************************************************)
\* the fields the serializer class declares, in order
DeclaredFields == <<"id", "name", "owner">>

\* dict.get(key) as a set: empty for None, else the value alone
GetOpt(dict, key) == IF key \in DOMAIN dict THEN {dict[key]} ELSE {}

\* isinstance(data, (dict, empty)): data is a dict, or an instance of the
\* class empty; the class empty itself, the default of data, is neither
IsDictOrEmptyInstance(data) == data.kind \in {"dict", "empty_instance"}

\* isdict(data, str): a dict all of whose keys are str
isdict_str(data) == data.kind = "dict" /\ data.key_types \subseteq {"str"}

\* mutant: PATCH looks at the entry of partial_update only
allowed_fields_NoFallback(method, is_response, instance, allowed_fields_dict) ==
    IF method = "GET" \/ is_response
    THEN IF instance # NoneValue
         THEN GetOpt(allowed_fields_dict, "retrieve")
         ELSE GetOpt(allowed_fields_dict, "list")
    ELSE IF method = "POST" THEN GetOpt(allowed_fields_dict, "create")
    ELSE IF method = "PUT" THEN GetOpt(allowed_fields_dict, "update")
    ELSE IF method = "PATCH" THEN GetOpt(allowed_fields_dict, "partial_update")
    ELSE {}

\* the allow-list __init__ selects for a request of the method: empty for
\* None, else the list alone
allowed_fields(method, is_response, instance, allowed_fields_dict) ==
    IF method = "GET" \/ is_response
    THEN IF instance # NoneValue
         THEN GetOpt(allowed_fields_dict, "retrieve")
         ELSE GetOpt(allowed_fields_dict, "list")
    ELSE IF method = "POST" THEN GetOpt(allowed_fields_dict, "create")
    ELSE IF method = "PUT" THEN GetOpt(allowed_fields_dict, "update")
    ELSE IF method = "PATCH"
    THEN IF "partial_update" \in DOMAIN allowed_fields_dict
         THEN GetOpt(allowed_fields_dict, "partial_update")
         ELSE GetOpt(allowed_fields_dict, "update")
    ELSE {}

\* ModelSerializer.__init__(instance, data, is_response=..., context=
\* {'request': request}) of a class whose Meta.allowed_fields is
\* allowed_fields_dict: the serializer built, or the error raised.  request
\* is the method of the request, "None" for a context without a request.
ModelSerializer_init(s) ==
    IF s.instance \notin {"Model", NoneValue} THEN [s EXCEPT !.status = "TypeError"]
    ELSE IF ~IsDictOrEmptyInstance(s.data) THEN [s EXCEPT !.status = "TypeError"]
    ELSE IF s.data.kind = "dict" /\ ~isdict_str(s.data)
    THEN [s EXCEPT !.status = "TypeError"]
    ELSE LET allowed == IF s.request = NoneValue THEN {}
                        ELSE allowed_fields(s.request, s.is_response, s.instance,
                                            s.allowed_fields)
             Keep(field_name) == \A names \in allowed : field_name \in names
         IN [s EXCEPT !.status = "constructed",
                      !.fields = SelectSeq(DeclaredFields, Keep)]

\* the actions Meta.allowed_fields has keys for
SerializerActions == {"create", "retrieve", "update", "partial_update", "list"}

\* the allow-list configured for an action; "extra" is no declared field
AllowedFieldsOf(action) ==
    CASE action = "create" -> {"name", "owner"}
      [] action = "retrieve" -> {"id", "name", "extra"}
      [] action = "update" -> {"name"}
      [] action = "partial_update" -> {"owner", "extra"}
      [] action = "list" -> {"id"}

\* Meta.allowed_fields: entries for some of the actions, one of them
\* possibly with an empty list; no entry at all also stands for a Meta
\* without the attribute
AllowedFieldsValues ==
    {[a \in S |-> IF a \in E THEN {} ELSE AllowedFieldsOf(a)] :
        S \in SUBSET SerializerActions, E \in {{}, {"retrieve"}, {"update"}}}

\* the values passed for data: the class empty (the default), an instance
\* of it, a dict with str keys, a dict with an int key, a list
DataValues ==
    {[kind |-> "empty", key_types |-> {}],
     [kind |-> "empty_instance", key_types |-> {}],
     [kind |-> "dict", key_types |-> {"str"}],
     [kind |-> "dict", key_types |-> {"str", "int"}],
     [kind |-> "list", key_types |-> {}]}

SerializerArgs ==
    [status : {"new"},
     instance : {NoneValue, "Model", "str"},
     data : DataValues,
     is_response : BOOLEAN,
     request : HttpMethods \cup {NoneValue},
     allowed_fields : AllowedFieldsValues,
     fields : {<<>>}]

InitSerializer ==
    /\ OtherIdle
    /\ view = NoView
    /\ ret = NoRet
    /\ serializer \in SerializerArgs
    /\ default_validators = <<>>
    /\ field_objs = <<>>

\* the serializer is constructed
Construct ==
    /\ serializer.status = "new"
    /\ serializer' = ModelSerializer_init(serializer)
    /\ UNCHANGED <<tagVars, concVars, nameVars, view, ret, default_validators, field_objs>>

NextSerializer == Construct

SpecSerializer == InitSerializer /\ [][NextSerializer]_vars

(***************************************************************************)
(* C27: the allow-list of the serializer.                                  *)
(***************************************************************************)
Constructed == serializer.status = "constructed"

\* the names in a list of fields
FieldNames(flds) == {flds[i] : i \in DOMAIN flds}

\* the action whose entry of Meta.allowed_fields applies, "None" when none
SelectedAction ==
    IF serializer.request = NoneValue THEN NoneValue
    ELSE IF serializer.request = "GET" \/ serializer.is_response
    THEN (IF serializer.instance # NoneValue THEN "retrieve" ELSE "list")
    ELSE IF serializer.request = "POST" THEN "create"
    ELSE IF serializer.request = "PUT" THEN "update"
    ELSE IF serializer.request = "PATCH"
    THEN (IF "partial_update" \in DOMAIN serializer.allowed_fields
          THEN "partial_update" ELSE "update")
    ELSE NoneValue

\* C27: a constructed serializer whose Meta.allowed_fields has an entry for
\* the selected action keeps exactly the declared fields that are in that
\* allow-list; without an entry for the action, or without a request, it
\* keeps every declared field.
C27_AllowListFiltersFields ==
    Constructed =>
        IF SelectedAction \in DOMAIN serializer.allowed_fields
        THEN /\ FieldNames(serializer.fields)
                   \subseteq serializer.allowed_fields[SelectedAction]
             /\ \A i \in DOMAIN DeclaredFields :
                   DeclaredFields[i] \in serializer.allowed_fields[SelectedAction]
                       => DeclaredFields[i] \in FieldNames(serializer.fields)
        ELSE serializer.fields = DeclaredFields

\* a PATCH request on a class with an entry for update and none for
\* partial_update: name is kept, id and owner are removed
C27_Witness ==
    /\ Constructed
    /\ serializer.request = "PATCH"
    /\ ~serializer.is_response
    /\ "partial_update" \notin DOMAIN serializer.allowed_fields
    /\ "update" \in DOMAIN serializer.allowed_fields
    /\ serializer.fields = <<"name">>

(***************************************************************************)
(* FileField and ImageField: the constructors append the validators of the *)
(* constraints to self.default_validators.  No class between the field and *)
(* rest_framework's Field assigns default_validators, so the name resolves *)
(* to the one list of the class Field; a field copies that list the first  *)
(* time its validators are read.                                           *)
(***************************************************************************)
\* the number of constructor calls
MaxFields == 3

\* an argument: its type and, for an int, its value
IntArg(n) == [type |-> "int", val |-> n]

NoneArg == [type |-> "NoneType", val |-> 0]

StrArg == [type |-> "str", val |-> 0]

ListOfStr == [type |-> "list_str", val |-> 0]

ListOfFileType == [type |-> "list_FileType", val |-> 0]

\* the defaults of the parameters of the constructors
DefaultArgs ==
    [cls |-> "FileField", allowed_extensions |-> NoneArg, min_size |-> IntArg(0),
     max_size |-> NoneArg, content_types |-> NoneArg, file_types |-> NoneArg,
     min_width |-> IntArg(0), min_height |-> IntArg(0), max_width |-> NoneArg,
     max_height |-> NoneArg]

\* isallinstance(obj, item_type, NoneType)
isallinstance_or_None(obj, list_type) == obj.type \in {list_type, "NoneType"}

\* the validators FileField.__init__ appends, in order
FileValidators(a, file_types) ==
    (IF a.allowed_extensions.type # "NoneType"
     THEN <<"FileExtensionValidator">> ELSE <<>>)
    \o (IF a.min_size.val > 0 THEN <<"FileMinSizeValidator">> ELSE <<>>)
    \o (IF a.max_size.type # "NoneType" THEN <<"FileMaxSizeValidator">> ELSE <<>>)
    \o (IF a.content_types.type # "NoneType"
        THEN <<"FileContentTypeValidator">> ELSE <<>>)
    \o (IF file_types.type # "NoneType" THEN <<"FileTypeValidator">> ELSE <<>>)

\* FileField.__init__ on the shared list validators: the list afterwards
\* and the error raised
FileField_init(validators, a, file_types) ==
    IF \/ ~isallinstance_or_None(a.allowed_extensions, "list_str")
       \/ a.min_size.type # "int"
       \/ a.max_size.type \notin {"NoneType", "int"}
       \/ ~isallinstance_or_None(a.content_types, "list_str")
       \/ ~isallinstance_or_None(file_types, "list_FileType")
    THEN [raised |-> "TypeError", default_validators |-> validators]
    ELSE [raised |-> NoneValue,
          default_validators |-> validators \o FileValidators(a, file_types)]

\* the validators ImageField.__init__ appends before it calls
\* FileField.__init__
ImageValidators(a) ==
    (IF a.min_width.val > 0 \/ a.min_height.val > 0
     THEN <<"ImageMinSizeValidator">> ELSE <<>>)
    \o (IF a.max_width.type # "NoneType" \/ a.max_height.type # "NoneType"
        THEN <<"ImageMaxSizeValidator">> ELSE <<>>)

\* ImageField.__init__
ImageField_init(validators, a) ==
    IF \/ a.min_width.type # "int"
       \/ a.min_height.type # "int"
       \/ a.max_width.type \notin {"NoneType", "int"}
       \/ a.max_height.type \notin {"NoneType", "int"}
    THEN [raised |-> "TypeError", default_validators |-> validators]
    ELSE FileField_init(validators \o ImageValidators(a), a, ListOfFileType)

\* the constructor calls made
FieldArgsValues ==
    {DefaultArgs,
     [DefaultArgs EXCEPT !.max_size = IntArg(10)],
     [DefaultArgs EXCEPT !.allowed_extensions = ListOfStr, !.min_size = IntArg(1)],
     [DefaultArgs EXCEPT !.content_types = ListOfStr, !.file_types = ListOfFileType],
     [DefaultArgs EXCEPT !.allowed_extensions = StrArg],
     [DefaultArgs EXCEPT !.cls = "ImageField"],
     [DefaultArgs EXCEPT !.cls = "ImageField", !.min_width = IntArg(1),
                         !.max_height = IntArg(10)],
     [DefaultArgs EXCEPT !.cls = "ImageField", !.min_height = IntArg(1),
                         !.min_size = StrArg]}

InitFields ==
    /\ OtherIdle
    /\ view = NoView
    /\ ret = NoRet
    /\ serializer = NoSerializer
    /\ default_validators = <<>>
    /\ field_objs = <<>>

FieldsFrame == UNCHANGED <<tagVars, concVars, nameVars, view, ret, serializer>>

\* FileField(...) or ImageField(...) is called; field_objs records the call,
\* the error it raised, and the field's cache of validators, not yet filled
NewField(a) ==
    LET called == IF a.cls = "ImageField"
                  THEN ImageField_init(default_validators, a)
                  ELSE FileField_init(default_validators, a, a.file_types)
    IN /\ Len(field_objs) < MaxFields
       /\ default_validators' = called.default_validators
       /\ field_objs' = Append(field_objs,
              [args |-> a,
               status |-> IF called.raised = NoneValue
                          THEN "constructed" ELSE called.raised,
               has_validators |-> FALSE,
               validators |-> <<>>])
       /\ FieldsFrame

\* field.validators is read for the first time: the field keeps
\* list(self.default_validators)
GetValidators(i) ==
    /\ i \in DOMAIN field_objs
    /\ field_objs[i].status = "constructed"
    /\ ~field_objs[i].has_validators
    /\ field_objs' = [field_objs EXCEPT ![i].has_validators = TRUE,
                                        ![i].validators = default_validators]
    /\ UNCHANGED default_validators
    /\ FieldsFrame

NextFields ==
    \/ \E a \in FieldArgsValues : NewField(a)
    \/ \E i \in 1..MaxFields : GetValidators(i)

SpecFields == InitFields /\ [][NextFields]_vars

(***************************************************************************)
(* C30: the validators of a field.                                         *)
(***************************************************************************)
\* the fields whose validators have been read
ReadFields ==
    {i \in DOMAIN field_objs :
        field_objs[i].status = "constructed" /\ field_objs[i].has_validators}

\* C30: a FileField constructed with no constraints carries no validator,
\* and no field carries a validator twice.
C30_ValidatorsOfInstanceOnly ==
    \A i \in ReadFields :
        /\ field_objs[i].args = DefaultArgs => field_objs[i].validators = <<>>
        /\ \A j, k \in DOMAIN field_objs[i].validators :
              field_objs[i].validators[j] = field_objs[i].validators[k] => j = k

====
